---- MODULE Spec2Model ----
(***************************************************************************)
(* Vector_Transmission (FRED): spread_infection, infect_vectors and        *)
(* infect_hosts of src/src/Vector_Transmission.cc as a state machine over  *)
(* one Place, its enrolled Persons, the disease registry and the random    *)
(* stream.  One action is one whole spread_infection call; a behaviour is   *)
(* the calls the engine makes for one place on one day, one per disease,   *)
(* in any order.                                                           *)
(***************************************************************************)
EXTENDS Integers, Sequences, FiniteSets, TLC

\* ---------------------------------------------------------------- bounds
MaxDiseases == 2        \* the registry holds 1..MaxDiseases diseases
MaxDiseaseTypes == 2    \* the compile-time DISEASE_TYPES is one of 1..MaxDiseaseTypes
NumHosts == 2           \* persons 1..NumHosts
MaxVectors == 2         \* susceptible vectors of the place at start
MaxInfectious == 1      \* infectious people per disease at the place
PDen == 2               \* probabilities and random draws are multiples of 1/PDen

VARIABLES
  diseases,        \* Global::Diseases.get_number_of_diseases()
  DISEASE_TYPES,   \* the macro DISEASE_TYPES (set in a header, value not in this file)
  day,             \* the simulated day the engine is processing
  processed,       \* disease ids whose spread_infection call was made on that day
  place,           \* the Place: vector counts, per-disease people, flag, enrollees
  person,          \* person -> [susceptible, infections]
  random_draws,    \* number of Random::draw_random() values consumed so far
  alive,           \* FALSE once the process has been terminated
  last,            \* what the last spread_infection call did
  iv_today         \* today's infect_vectors invocations: TRUE = passed both guards

vars == <<diseases, DISEASE_TYPES, day, processed, place, person,
          random_draws, alive, last, iv_today>>

Hosts == 1..NumHosts
Probabilities == 0..PDen          \* numerators of the probabilities n/PDen in [0,1]
Draws == 0..(PDen - 1)            \* numerators of the draws n/PDen in [0,1)

\* a call of a collaborator's mutator, as it appears in a call's trace
Call(name, a, b) == [call |-> name, a |-> a, b |-> b]

\* (int) of a non-negative double quotient: truncation toward zero
Trunc(num, den) == num \div den

\* ------------------------------------------------------- Place (collaborator)
\* Place::reset_place_state(disease_id): clears the per-day state of one disease
reset_place_state(w, disease_id) ==
  [w EXCEPT !.place.infectious_people[disease_id] = 0,
            !.trace = Append(@, Call("reset_place_state", disease_id, 0))]

\* Place::record_infectious_days(day): first and last day of infectiousness
record_infectious_days(w, d) ==
  [w EXCEPT !.place.first_day_infectious = IF @ = -1 THEN d ELSE @,
            !.place.last_day_infectious = d,
            !.trace = Append(@, Call("record_infectious_days", d, 0))]

\* Place::expose_vectors(disease_id, n): n susceptible vectors become exposed
expose_vectors(w, disease_id, n) ==
  [w EXCEPT !.place.S_vectors = @ - n,
            !.place.E_vectors[disease_id] = @ + n,
            !.trace = Append(@, Call("expose_vectors", disease_id, n))]

\* Place::mark_vectors_as_infected_today()
mark_vectors_as_infected_today(w) ==
  [w EXCEPT !.place.vectors_infected_today = TRUE,
            !.trace = Append(@, Call("mark_vectors_as_infected_today", 0, 0))]

\* ------------------------------------------------------ Person (collaborator)
\* Person::become_exposed(disease_id, NULL, place, day)
become_exposed(w, h, disease_id) ==
  [w EXCEPT !.person[h].susceptible = @ \ {disease_id},
            !.person[h].infections = Append(@, disease_id),
            !.trace = Append(@, Call("become_exposed", h, disease_id))]

\* Person::become_unsusceptible(Global::Diseases.get_disease(d)); an id the
\* registry does not hold has no susceptibility to lose
become_unsusceptible(w, h, d) ==
  [w EXCEPT !.person[h].susceptible = @ \ {d},
            !.trace = Append(@, Call("become_unsusceptible", h, d))]

\* ------------------------------------------------------------ infect_vectors
\* lines 78-82: total_infectious_hosts summed over disease ids d..n-1
RECURSIVE CountInfectious(_, _, _)
CountInfectious(pl, n, d) ==
  IF d >= n THEN 0
  ELSE pl.infectious_people[d] + CountInfectious(pl, n, d + 1)

\* line 100: int total_infections = prob_infection * susceptible_vectors
TotalInfections(pn, susceptible_vectors) == Trunc(pn * susceptible_vectors, PDen)

\* faulty variant: the share rounded up instead of truncated
ExposedVectorsCeil(total_infections, infectious, total_infectious) ==
  (total_infections * infectious + total_infectious - 1) \div total_infectious

\* line 106: int exposed_vectors = total_infections * (infectious / total_infectious)
ExposedVectors(total_infections, infectious, total_infectious) ==
  Trunc(total_infections * infectious, total_infectious)

\* faulty variant: no expose_vectors call for a share of 0
AssignStrainSkipZero(w, d, total_infections, infectious, total_infectious) ==
  LET exposed_vectors == ExposedVectors(total_infections, infectious, total_infectious)
  IN  IF exposed_vectors = 0 THEN w ELSE expose_vectors(w, d, exposed_vectors)

\* lines 106-107: one iteration of the allocation loop
AssignStrain(w, d, total_infections, infectious, total_infectious) ==
  expose_vectors(w, d, ExposedVectors(total_infections, infectious, total_infectious))

\* lines 105-109: the allocation loop over disease ids d..n-1; the counts are
\* the array infectious_hosts read at lines 79-82, before any mutation
RECURSIVE AssignStrains(_, _, _, _, _, _)
AssignStrains(w, n, d, total_infections, infectious_hosts, total_infectious) ==
  IF d >= n THEN w
  ELSE AssignStrains(
         AssignStrain(w, d, total_infections, infectious_hosts[d], total_infectious),
         n, d + 1, total_infections, infectious_hosts, total_infectious)

\* faulty variant: the place is marked before the guards are tested
infect_vectors_MarkFirst(w, n, pn) ==
  LET m == mark_vectors_as_infected_today(w)
      susceptible_vectors == w.place.S_vectors
      total_infectious_hosts == CountInfectious(w.place, n, 0)
      total_infections == TotalInfections(pn, susceptible_vectors)
  IN  IF susceptible_vectors = 0
        THEN [m EXCEPT !.vector_stage = "no_susceptible_vectors"]
      ELSE IF total_infectious_hosts = 0
        THEN [m EXCEPT !.vector_stage = "no_infectious_hosts"]
      ELSE [AssignStrains(m, n, 0, total_infections,
                          w.place.infectious_people, total_infectious_hosts)
              EXCEPT !.vector_stage = "infected",
                     !.total_infections = total_infections]

\* lines 64-112: infect_vectors(day, place); pn/PDen is prob_infection (line 97).
\* vector_stage records which return was taken, total_infections the local of
\* line 100.
infect_vectors(w, n, pn) ==
  LET susceptible_vectors == w.place.S_vectors
      total_infectious_hosts == CountInfectious(w.place, n, 0)
      total_infections == TotalInfections(pn, susceptible_vectors)
  IN  IF susceptible_vectors = 0
        THEN [w EXCEPT !.vector_stage = "no_susceptible_vectors"]
      ELSE IF total_infectious_hosts = 0
        THEN [w EXCEPT !.vector_stage = "no_infectious_hosts"]
      ELSE [mark_vectors_as_infected_today(
              AssignStrains(w, n, 0, total_infections,
                            w.place.infectious_people, total_infectious_hosts))
              EXCEPT !.vector_stage = "infected",
                     !.total_infections = total_infections]

\* -------------------------------------------------------------- infect_hosts
\* lines 139-144: floor(expected_infections), one more when the draw is below
\* the remainder; expected_infections = num/PDen, the draw is draw/PDen
MaxExposedHosts(num, draw) ==
  LET floor_expected == num \div PDen
      remainder == num % PDen
  IN  IF draw < remainder THEN floor_expected + 1 ELSE floor_expected

\* lines 150-151: std::vector<int> shuffle_index; shuffle_index.reserve(n):
\* storage for n elements, size() still 0
reserve(n) == [size |-> 0, storage |-> [i \in 1..n |-> -1]]

\* line 153: shuffle_index[i] = x through the unchecked operator[]: the element
\* is stored, size() does not change
ElementWrite(v, i, x) == [v EXCEPT !.storage[i + 1] = x]

\* line 161: shuffle_index[j] through the unchecked operator[]
ElementRead(v, j) == v.storage[j + 1]

\* lines 152-154: for (i = 0; i < total_hosts; i++) shuffle_index[i] = i
RECURSIVE FillIndex(_, _, _)
FillIndex(v, i, total_hosts) ==
  IF i >= total_hosts THEN v
  ELSE FillIndex(ElementWrite(v, i, i), i + 1, total_hosts)

\* FYShuffle<int>(std::vector<int>&): Fisher-Yates over the vector's size()
\* elements, one random draw per swap; picks[m] is the draw of step m
RECURSIVE FYShuffle(_, _, _)
FYShuffle(v, m, picks) ==
  IF m = 0 THEN v
  ELSE LET r == picks[m] % m
           a == v.storage[m]
           b == v.storage[r + 1]
       IN  FYShuffle([v EXCEPT !.storage[m] = b, !.storage[r + 1] = a], m - 1, picks)

\* lines 150-155: the index vector handed to the walk
ShuffleIndex(total_hosts, picks) ==
  LET filled == FillIndex(reserve(total_hosts), 0, total_hosts)
  IN  FYShuffle(filled, filled.size, picks)

\* the elements FYShuffle ranges over for a place of total_hosts enrollees
ShuffleSteps(total_hosts) == 1..FillIndex(reserve(total_hosts), 0, total_hosts).size

\* lines 174-179: for (d = 0; d < DISEASE_TYPES; d++) if (d != disease_id) ...
RECURSIVE OtherDiseases(_, _, _, _, _)
OtherDiseases(w, h, disease_id, types, d) ==
  IF d >= types THEN w
  ELSE OtherDiseases(IF d # disease_id THEN become_unsusceptible(w, h, d) ELSE w,
                     h, disease_id, types, d + 1)

\* Person::update_schedule(day)
update_schedule(w, h, d) == [w EXCEPT !.trace = Append(@, Call("update_schedule", h, d))]

\* lines 161-182: the body of the walk for one infectee
Attempt(w, h, d, disease_id, types, present) ==
  LET u == update_schedule(w, h, d)
  IN  IF h \notin present THEN u
      ELSE IF disease_id \in u.person[h].susceptible
        THEN OtherDiseases(become_exposed(u, h, disease_id), h, disease_id, types, 0)
      ELSE u

\* faulty variant: an absent person does not use up one of the attempts
HostLoop_PresentOnly(w, d, disease_id, types, present, max_exposed_hosts, j) ==
  LET RECURSIVE Go(_, _, _)
      Go(x, k, left) ==
        IF left = 0 \/ k >= Len(x.place.enrollees) THEN x
        ELSE LET h == x.place.enrollees[ElementRead(x.shuffle_index, k) + 1]
             IN  IF h \notin present THEN Go(update_schedule(x, h, d), k + 1, left)
                 ELSE Go(Attempt(x, h, d, disease_id, types, present), k + 1, left - 1)
  IN  Go(w, j, max_exposed_hosts)

\* lines 160-183: for (j = 0; j < max_exposed_hosts; ++j)
RECURSIVE HostLoop(_, _, _, _, _, _, _)
HostLoop(w, d, disease_id, types, present, max_exposed_hosts, j) ==
  IF j >= max_exposed_hosts THEN w
  ELSE LET infectee == w.place.enrollees[ElementRead(w.shuffle_index, j) + 1]
       IN  HostLoop(Attempt(w, infectee, d, disease_id, types, present),
                    d, disease_id, types, present, max_exposed_hosts, j + 1)

\* lines 114-184: infect_hosts(day, disease_id, place).  in.p_hosts/PDen is
\* prob_infection (line 136), in.draw/PDen the draw of line 142.  The element
\* accesses of lines 153 and 161 are outside size(): in.trap is the build whose
\* operator[] is checked and terminates the process at the first of them.
infect_hosts(w, d, disease_id, types, in) ==
  LET total_hosts == Len(w.place.enrollees)
  IN  IF total_hosts = 0 THEN [w EXCEPT !.host_stage = "no_hosts"]
      ELSE IF in.infectious_vectors = 0 THEN [w EXCEPT !.host_stage = "no_vectors"]
      ELSE IF in.transmission_zero THEN [w EXCEPT !.host_stage = "no_efficiency"]
      ELSE LET max_exposed_hosts == MaxExposedHosts(total_hosts * in.p_hosts, in.draw)
               drawn == [w EXCEPT !.draws = @ + 1,
                                  !.max_exposed_hosts = max_exposed_hosts]
           IN  IF in.trap
                 THEN [drawn EXCEPT !.host_stage = "terminated", !.status = "aborted"]
               ELSE LET shuffled ==
                          [drawn EXCEPT !.host_stage = "walked",
                                        !.shuffle_index = ShuffleIndex(total_hosts, in.picks),
                                        !.draws = @ + Cardinality(ShuffleSteps(total_hosts))]
                    IN  HostLoop(shuffled, d, disease_id, types, in.present,
                                 max_exposed_hosts, 0)

\* ---------------------------------------------------------- spread_infection
\* faulty variant: should_be_open is not consulted
ShortCircuit_NoPolicy(in) == in.beta_zero \/ in.is_open = FALSE

\* line 44: beta == 0.0 || is_open(day) == false || should_be_open(day, id) == false
ShortCircuit(in) ==
  in.beta_zero \/ in.is_open = FALSE \/ in.should_be_open = FALSE

\* faulty variant: the closed path returns without the reset
ClosedExit_NoReset(w, disease_id) == [w EXCEPT !.status = "returned"]

\* lines 45-46: place->reset_place_state(disease_id); return
ClosedExit(w, disease_id) ==
  [reset_place_state(w, disease_id) EXCEPT !.status = "returned"]

\* faulty variant: the vectors-infected-today flag is not consulted
VectorStage_Ungated(w, n, pn) == infect_vectors(w, n, pn)

\* lines 53-55: if (have_vectors_been_infected_today() == false) infect_vectors(...)
VectorStage(w, n, pn) ==
  IF w.place.vectors_infected_today = FALSE THEN infect_vectors(w, n, pn) ELSE w

\* lines 39-61: spread_infection(day, disease_id, place); n is the registry's
\* number of diseases, types is DISEASE_TYPES
spread_infection(w, d, disease_id, n, types, in) ==
  IF ShortCircuit(in) THEN ClosedExit(w, disease_id)
  ELSE LET recorded == record_infectious_days(w, d)
           vectors == VectorStage(recorded, n, in.p_vectors)
           hosts == infect_hosts(vectors, d, disease_id, types, in)
       IN  IF hosts.status = "aborted" THEN hosts
           ELSE [reset_place_state(hosts, disease_id) EXCEPT !.status = "returned"]

\* ------------------------------------------------------------------- state
Strains == 0..(diseases - 1)

\* the locals of a call at its entry
Begin ==
  [place |-> place, person |-> person, trace |-> <<>>, draws |-> 0,
   status |-> "running", vector_stage |-> "not_run", total_infections |-> 0,
   host_stage |-> "not_run", max_exposed_hosts |-> 0,
   shuffle_index |-> [size |-> 0, storage |-> <<>>]]

\* which test of line 44 ended the call
Guard(in) ==
  IF in.beta_zero THEN "transmissibility"
  ELSE IF in.is_open = FALSE THEN "closed"
  ELSE IF in.should_be_open = FALSE THEN "policy"
  ELSE "none"

NoCall ==
  [op |-> "none", disease_id |-> 0, guard |-> "none", present |-> {},
   status |-> "returned", trace |-> <<>>, draws |-> 0, vector_stage |-> "not_run",
   total_infections |-> 0, host_stage |-> "not_run", max_exposed_hosts |-> 0,
   shuffle_index |-> [size |-> 0, storage |-> <<>>]]

Record(disease_id, in, r) ==
  [op |-> "spread_infection", disease_id |-> disease_id, guard |-> Guard(in),
   present |-> IF r.host_stage = "walked" THEN in.present ELSE {},
   status |-> r.status, trace |-> r.trace, draws |-> r.draws,
   vector_stage |-> r.vector_stage, total_infections |-> r.total_infections,
   host_stage |-> r.host_stage, max_exposed_hosts |-> r.max_exposed_hosts,
   shuffle_index |-> r.shuffle_index]

\* the answers of the collaborators a call reads.  A value the call does not
\* read on its path is not enumerated.
Quiet ==
  [beta_zero |-> FALSE, is_open |-> TRUE, should_be_open |-> TRUE, p_vectors |-> 0,
   infectious_vectors |-> 0, transmission_zero |-> FALSE, p_hosts |-> 0, draw |-> 0,
   present |-> {}, trap |-> FALSE, picks |-> <<>>]

\* line 44 evaluates left to right and stops at the first test that holds
ClosedInputs ==
  { [Quiet EXCEPT !.beta_zero = TRUE],
    [Quiet EXCEPT !.is_open = FALSE],
    [Quiet EXCEPT !.should_be_open = FALSE] }

\* prob_infection of line 97 is computed only past both guards of
\* infect_vectors, and acts through total_infections alone: one probability is
\* kept for every value of total_infections
VectorInputs ==
  IF /\ place.vectors_infected_today = FALSE
     /\ place.S_vectors # 0
     /\ CountInfectious(place, diseases, 0) # 0
  THEN { p \in Probabilities :
           \A q \in Probabilities :
             TotalInfections(q, place.S_vectors) = TotalInfections(p, place.S_vectors)
               => p <= q }
  ELSE {0}

\* prob_infection of line 136 and the draw of line 142 act through
\* max_exposed_hosts alone: one pair is kept for every value of it
Roundings ==
  LET th == Len(place.enrollees)
      pairs == Probabilities \X Draws
      Less(x, y) == x[1] < y[1] \/ (x[1] = y[1] /\ x[2] <= y[2])
  IN  { x \in pairs :
          \A y \in pairs :
            MaxExposedHosts(th * y[1], y[2]) = MaxExposedHosts(th * x[1], x[2])
              => Less(x, y) }

\* is_present is asked of the persons the walk visits only
Visited(n, picks) ==
  LET th == Len(place.enrollees)
      v == ShuffleIndex(th, picks)
  IN  { place.enrollees[ElementRead(v, j) + 1] : j \in 0..(n - 1) }

HostInputs ==
  IF Len(place.enrollees) = 0 THEN { Quiet }
  ELSE
  { [Quiet EXCEPT !.infectious_vectors = 0] }
  \cup { [Quiet EXCEPT !.infectious_vectors = 1, !.transmission_zero = TRUE] }
  \cup { [Quiet EXCEPT !.infectious_vectors = 1, !.p_hosts = x[1], !.draw = x[2],
                       !.trap = TRUE] : x \in Roundings }
  \cup UNION { UNION { { [Quiet EXCEPT !.infectious_vectors = 1, !.p_hosts = x[1],
                                       !.draw = x[2], !.present = pr, !.picks = pk] :
                           pr \in SUBSET Visited(MaxExposedHosts(
                                           Len(place.enrollees) * x[1], x[2]), pk) } :
                       pk \in [ShuffleSteps(Len(place.enrollees)) -> 0..(NumHosts - 1)] } :
               x \in Roundings }

OpenInputs == { [h EXCEPT !.p_vectors = p] : h \in HostInputs, p \in VectorInputs }

Apply(disease_id, in) ==
  LET r == spread_infection(Begin, day, disease_id, diseases, DISEASE_TYPES, in)
  IN  /\ place' = r.place
      /\ person' = r.person
      /\ random_draws' = random_draws + r.draws
      /\ alive' = (r.status = "returned")
      /\ last' = Record(disease_id, in, r)
      /\ iv_today' = IF r.vector_stage = "not_run" THEN iv_today
                     ELSE Append(iv_today, r.vector_stage = "infected")
      /\ processed' = processed \cup {disease_id}
      /\ UNCHANGED <<diseases, DISEASE_TYPES, day>>

Init ==
  /\ diseases \in 1..MaxDiseases
  /\ DISEASE_TYPES \in 1..MaxDiseaseTypes
  /\ day = 0
  /\ processed = {}
  /\ \E s \in {0, MaxVectors}, k \in {0, NumHosts},
        ip \in [0..(diseases - 1) -> 0..MaxInfectious] :
       place = [S_vectors |-> s, E_vectors |-> [d \in 0..(diseases - 1) |-> 0],
                infectious_people |-> ip, vectors_infected_today |-> FALSE,
                first_day_infectious |-> -1, last_day_infectious |-> -1,
                enrollees |-> [i \in 1..k |-> i]]
  /\ person = [h \in Hosts |-> [susceptible |-> 0..(diseases - 1), infections |-> <<>>]]
  /\ random_draws = 0
  /\ alive = TRUE
  /\ last = NoCall
  /\ iv_today = <<>>

\* the engine calls spread_infection for a disease on a closed place
SpreadClosed ==
  /\ alive
  /\ \E disease_id \in Strains \ processed, in \in ClosedInputs : Apply(disease_id, in)

\* the engine calls spread_infection for a disease on an open place
SpreadOpen ==
  /\ alive
  /\ \E disease_id \in Strains \ processed, in \in OpenInputs : Apply(disease_id, in)

Next == SpreadClosed \/ SpreadOpen

Spec == Init /\ [][Next]_vars

\* a place nobody is enrolled in: the host stage returns at line 119
InitVectorStage == Init /\ place.enrollees = <<>>

\* a place without susceptible vectors and without infectious people: the
\* vector stage returns at line 69
InitHostStage ==
  /\ Init
  /\ place.S_vectors = 0
  /\ \A d \in Strains : place.infectious_people[d] = 0

\* the days on which at most one of the two stages has work to do
SpecOneStage == (InitVectorStage \/ InitHostStage) /\ [][Next]_vars

\* ------------------------------------------------------------------ claims
\* the entries of a call trace that name one mutator
Indices(tr, name) == { i \in DOMAIN tr : tr[i].call = name }

\* the calls of one mutator in a trace, in order
RECURSIVE Only(_, _)
Only(tr, name) ==
  IF tr = <<>> THEN <<>>
  ELSE IF Head(tr).call = name THEN <<Head(tr)>> \o Only(Tail(tr), name)
  ELSE Only(Tail(tr), name)

RECURSIVE SumB(_)
SumB(calls) == IF calls = <<>> THEN 0 ELSE Head(calls).b + SumB(Tail(calls))

RECURSIVE SumPeople(_, _)
SumPeople(ip, ids) ==
  IF ids = {} THEN 0
  ELSE LET d == CHOOSE x \in ids : TRUE IN ip[d] + SumPeople(ip, ids \ {d})

Called == last.op = "spread_infection"

\* C1: a spread_infection call that returns has called reset_place_state exactly
\* once, for its own disease, as its last step, on the closed paths and on the
\* open path alike.
C1_ResetExactlyOnce ==
  (Called /\ last.status = "returned") =>
    /\ Cardinality(Indices(last.trace, "reset_place_state")) = 1
    /\ last.trace[Len(last.trace)] = Call("reset_place_state", last.disease_id, 0)

C1_Witness ==
  /\ Called /\ last.status = "returned" /\ last.guard = "none"
  /\ last.host_stage = "walked" /\ last.max_exposed_hosts >= 1
  /\ Cardinality(Indices(last.trace, "reset_place_state")) = 1

\* C2: a call that ends at one of the three tests of line 44 leaves the vector
\* counts, the vectors-infected-today flag, the infectious-day record, every
\* person and the random stream as they were; its only collaborator call is
\* the reset for its disease.
C2_ClosedCallIsNoOp ==
  [][ (last'.op = "spread_infection" /\ last'.guard # "none") =>
        /\ place'.S_vectors = place.S_vectors
        /\ place'.E_vectors = place.E_vectors
        /\ place'.vectors_infected_today = place.vectors_infected_today
        /\ place'.first_day_infectious = place.first_day_infectious
        /\ place'.last_day_infectious = place.last_day_infectious
        /\ place'.enrollees = place.enrollees
        /\ person' = person
        /\ random_draws' = random_draws
        /\ last'.trace = <<Call("reset_place_state", last'.disease_id, 0)>> ]_vars

C2_Witness ==
  /\ Called /\ last.guard = "policy" /\ last.status = "returned"
  /\ last.trace = <<Call("reset_place_state", last.disease_id, 0)>>
  /\ Cardinality(processed) >= 2

\* C3 as claimed: infect_vectors is invoked at most once for a place on a day.
C3_AtMostOneInvocation == Len(iv_today) <= 1

\* C3 as amended: once an invocation of infect_vectors has passed both guards
\* and marked the place, no later call of the day invokes it; an invocation
\* that returned at a guard does not stop a later one.
C3_NoInvocationAfterMark ==
  \A i \in 1..(Len(iv_today) - 1) : iv_today[i] = FALSE

C3_Witness ==
  /\ Called /\ last.guard = "none" /\ last.vector_stage = "not_run"
  /\ Len(iv_today) >= 1 /\ iv_today[Len(iv_today)] = TRUE
  /\ place.vectors_infected_today
  /\ place.S_vectors > 0

\* C4: when a call that returns has exposed a person to a disease, the person
\* is susceptible to no other disease of the registry.
C4_CrossImmunity ==
  (Called /\ last.status = "returned") =>
    \A i \in Indices(last.trace, "become_exposed") :
      \A y \in Strains \ {last.trace[i].b} :
        y \notin person[last.trace[i].a].susceptible

\* C5: past both guards of infect_vectors, the counts handed to expose_vectors
\* sum to at most total_infections, which is at most the susceptible vectors
\* the place had.
C5_AllocationWithinTotal ==
  [][ (last'.op = "spread_infection" /\ last'.vector_stage = "infected") =>
        /\ SumB(Only(last'.trace, "expose_vectors")) <= last'.total_infections
        /\ last'.total_infections <= place.S_vectors ]_vars

C5_Witness ==
  /\ Called /\ last.vector_stage = "infected"
  /\ last.total_infections >= 1
  /\ SumB(Only(last.trace, "expose_vectors")) < last.total_infections
  /\ Len(Only(last.trace, "expose_vectors")) >= 2

\* C6: an invocation of infect_vectors on a place without susceptible vectors,
\* or without infectious people of any disease, calls neither expose_vectors
\* nor mark_vectors_as_infected_today and leaves flag and vector counts alone.
C6_GuardedStageMutatesNothing ==
  [][ ( /\ last'.op = "spread_infection"
        /\ last'.vector_stage # "not_run"
        /\ \/ place.S_vectors = 0
           \/ \A d \in Strains : place.infectious_people[d] = 0 ) =>
        /\ Indices(last'.trace, "expose_vectors") = {}
        /\ Indices(last'.trace, "mark_vectors_as_infected_today") = {}
        /\ place'.vectors_infected_today = place.vectors_infected_today
        /\ place'.S_vectors = place.S_vectors
        /\ place'.E_vectors = place.E_vectors ]_vars

C6_Witness ==
  /\ Called /\ last.vector_stage = "no_infectious_hosts"
  /\ place.S_vectors > 0
  /\ place.vectors_infected_today = FALSE

\* C7: a walk with target N visits the persons at the first N entries of the
\* index vector, in order, and no others; a visited person who is absent or
\* not susceptible is not exposed, so at most N persons are exposed.
C7_SlotsByPosition ==
  [][ (last'.op = "spread_infection" /\ last'.host_stage = "walked") =>
        LET n == last'.max_exposed_hosts
            visits == Only(last'.trace, "update_schedule")
            exposed == Only(last'.trace, "become_exposed")
        IN  /\ n <= Len(place.enrollees)
            /\ Len(visits) = n
            /\ \A j \in 1..n :
                 visits[j].a = place.enrollees[last'.shuffle_index.storage[j] + 1]
            /\ Len(exposed) <= n
            /\ \A j \in 1..n :
                 ( \/ visits[j].a \notin last'.present
                   \/ last'.disease_id \notin person[visits[j].a].susceptible ) =>
                 \A k \in 1..Len(exposed) : exposed[k].a # visits[j].a ]_vars

C7_Witness ==
  /\ Called /\ last.host_stage = "walked" /\ last.status = "returned"
  /\ last.max_exposed_hosts = 2
  /\ Len(Only(last.trace, "update_schedule")) = 2
  /\ Len(Only(last.trace, "become_exposed")) = 1

\* C8: the walk order is the permutation the shuffle builds of the whole index
\* range: the shuffle ranges over all total_hosts indices, one draw for each,
\* and the indices read are 0..total_hosts-1, each once.
C8_ShuffledPermutation ==
  (Called /\ last.host_stage = "walked") =>
    LET th == Len(place.enrollees)
        v == last.shuffle_index
    IN  /\ v.size = th
        /\ last.draws = 1 + th
        /\ { v.storage[i] : i \in 1..th } = 0..(th - 1)

\* what the walk order is instead: the enrollment order, on every call
C8_EnrollmentOrder ==
  (Called /\ last.host_stage = "walked") =>
    /\ last.shuffle_index.size = 0
    /\ \A i \in 1..Len(place.enrollees) : last.shuffle_index.storage[i] = i - 1

C10_AtMostOneExposure ==
  \A h \in Hosts : Len(person[h].infections) <= 1

====
